---- MODULE Spec2Model ----
(***************************************************************************)
(* doxs.core: the `apply` decorator, which writes "Parameters:",           *)
(* "Returns:" and "Attributes:" sections into docstrings from signatures,  *)
(* annotations and decoration-time override tables.                        *)
(*                                                                         *)
(* A Python str is a sequence of tokens: a token is one whitespace         *)
(* character (" ", "\n") or a non-empty run of text with no whitespace at  *)
(* either end.  Concatenation is \o, "" is << >>, and strip() removes the  *)
(* whitespace tokens at the two ends.                                      *)
(*                                                                         *)
(* Python objects with identity (functions, classes) live in `heap`, a     *)
(* sequence indexed by object id; a reference to one is Ref(id).           *)
(* Type introspection follows CPython 3.10+ (types.GenericAlias forwards   *)
(* __name__ to its origin; get_type_hints maps None to NoneType).          *)
(***************************************************************************)
EXTENDS Integers, Sequences, FiniteSets, TLC

VARIABLES heap, call, ncalls

vars == <<heap, call, ncalls>>

----------------------------------------------------------------------------
(* Bounds of the model *)

\* number of apply/decorator calls in one behaviour of Spec
MaxCalls == 3

\* longest parameter list / attribute list drawn in RenderInit
MaxParams == 2

----------------------------------------------------------------------------
(* Python values: one record shape per type, so that values of different
   types are never compared field by field *)

None == [t |-> "NoneType"]

\* inspect.Parameter.empty / inspect.Signature.empty
Empty == [t |-> "empty"]

IntV(n) == [t |-> "int", i |-> n]

StrV(s) == [t |-> "str", s |-> s]

ListV(l) == [t |-> "list", l |-> l]

DictV(f) == [t |-> "dict", d |-> f]

Ref(id) == [t |-> "ref", id |-> id]

\* bool(v) for the values tested by `if` in core.py
Truthy(v) ==
    CASE v.t = "NoneType" -> FALSE
      [] v.t = "str" -> v.s # << >>
      [] v.t = "list" -> v.l # << >>
      [] v.t = "dict" -> DOMAIN v.d # {}
      [] v.t = "int" -> v.i # 0
      [] OTHER -> TRUE

\* repr(v), the text of f"{default!r}"
repr(v) ==
    CASE v.t = "NoneType" -> <<"None">>
      [] v.t = "int" -> <<ToString(v.i)>>
      [] v.t = "str" -> <<"'">> \o v.s \o <<"'">>
      [] OTHER -> <<"<object>">>

----------------------------------------------------------------------------
(* str operations *)

IsSpace(c) == c \in {" ", "\n", "\t"}

lstrip(s) ==
    IF \A i \in 1..Len(s) : IsSpace(s[i]) THEN << >>
    ELSE LET k == CHOOSE i \in 1..Len(s) :
                    ~IsSpace(s[i]) /\ \A j \in 1..(i - 1) : IsSpace(s[j])
         IN SubSeq(s, k, Len(s))

rstrip(s) ==
    IF \A i \in 1..Len(s) : IsSpace(s[i]) THEN << >>
    ELSE LET k == CHOOSE i \in 1..Len(s) :
                    ~IsSpace(s[i]) /\ \A j \in (i + 1)..Len(s) : IsSpace(s[j])
         IN SubSeq(s, 1, k)

\* str.strip()
strip(s) == rstrip(lstrip(s))

RECURSIVE join(_, _)
\* sep.join(list)
join(sep, list) ==
    IF list = << >> THEN << >>
    ELSE IF Len(list) = 1 THEN list[1]
    ELSE list[1] \o sep \o join(sep, Tail(list))

\* the four spaces opening the f-strings "    {desc}" and "    Default: ..."
Indent == <<" ", " ", " ", " ">>

----------------------------------------------------------------------------
(* Annotations: classes, generic aliases, unions, the Annotation wrapper *)

\* a class object used as a type: int, str, NoneType, typing.Any
Class(name) == [kind |-> "class", name |-> name]

\* types.GenericAlias: list[int], dict[str, list[int]]
GenericAlias(origin, args) == [kind |-> "generic", origin |-> origin, args |-> args]

\* types.UnionType: int | str (an annotation object without __name__)
UnionType(args) == [kind |-> "union", args |-> args]

\* doxs.Annotation(type_, description, default=None)
Annotation(type_, description, default) ==
    [kind |-> "Annotation", type |-> type_, description |-> description,
     default |-> default]

\* the annotation written as the literal None (`-> None`)
NoneAnn == [kind |-> "none"]

\* no annotation: inspect.Parameter.empty / inspect.Signature.empty
EmptyAnn == [kind |-> "empty"]

\* typing.Any
AnyType == Class("Any")

RECURSIVE str_(_)
\* str(annotation) for the annotation objects that reach it
str_(a) ==
    CASE a.kind = "class" -> <<a.name>>
      [] a.kind = "generic" ->
            <<a.origin.name, "[">>
            \o join(<<",", " ">>, [i \in 1..Len(a.args) |-> str_(a.args[i])])
            \o <<"]">>
      [] a.kind = "union" ->
            join(<<" ", "|", " ">>, [i \in 1..Len(a.args) |-> str_(a.args[i])])
      [] a.kind = "none" -> <<"None">>
      [] OTHER -> <<"<object>">>

\* whether the annotation object has a __name__ attribute: a class has one,
\* a types.GenericAlias forwards the lookup to its origin, a union has none
has_name(annotation) == annotation.kind \in {"class", "generic"}

\* annotation.__name__
name_attr(annotation) ==
    IF annotation.kind = "generic" THEN <<annotation.origin.name>>
    ELSE <<annotation.name>>

\* getattr(annotation, "__name__", str(annotation))
type_name(annotation) ==
    IF has_name(annotation) THEN name_attr(annotation) ELSE str_(annotation)

\* typing.get_type_hints on one annotation: None becomes NoneType
type_hint(annotation) ==
    IF annotation.kind = "none" THEN Class("NoneType") ELSE annotation

----------------------------------------------------------------------------
(* Objects *)

\* a function object: __doc__, the signature (parameters, return annotation)
\* and __wrapped__ (0 when the function is no functools.wraps wrapper)
Function(doc, params, ret) ==
    [kind |-> "function", doc |-> doc, params |-> params, ret |-> ret,
     wrapped |-> 0]

\* one formal parameter of a signature
Param(name, annotation, default) ==
    [name |-> name, annotation |-> annotation, default |-> default]

\* a class object: __doc__, __annotations__ (ordered) and __dict__ (ordered)
ClassObj(doc, annotations, dict) ==
    [kind |-> "class", doc |-> doc, annotations |-> annotations, dict |-> dict]

Entry(name, value) == [name |-> name, value |-> value]

\* inspect.isclass(obj)
isclass(h, obj) == obj.t = "ref" /\ h[obj.id].kind = "class"

\* callable(obj)
callable(h, obj) == obj.t = "ref"

\* `x.__doc__ or ""`
doc_or_empty(doc) == IF Truthy(doc) THEN doc.s ELSE << >>

\* name in cls.__dict__
in_dict(dict, name) == \E i \in 1..Len(dict) : dict[i].name = name

\* cls.__dict__.get(name, None)
dict_get(dict, name) ==
    IF in_dict(dict, name)
    THEN dict[CHOOSE i \in 1..Len(dict) : dict[i].name = name].value
    ELSE None

\* attr_name.startswith("__")
DunderNames == {"__init__", "__repr__", "__call__"}

startswith_dunder(name) == name \in DunderNames

----------------------------------------------------------------------------
(* _apply_to_func *)

\* param_lines with the precedence reversed: the Annotation wrapper's
\* description is kept when the wrapper has one
param_lines_wrapper_first(param, params) ==
    LET annotation ==
            IF param.annotation.kind = "empty" THEN AnyType
            ELSE type_hint(param.annotation)
        isAnn == annotation.kind = "Annotation"
        typ == IF isAnn THEN name_attr(annotation.type) ELSE type_name(annotation)
        default0 == IF param.default # Empty THEN param.default ELSE None
        default ==
            IF isAnn /\ annotation.default # None THEN annotation.default
            ELSE default0
        desc ==
            IF isAnn /\ annotation.description # << >> THEN annotation.description
            ELSE IF Truthy(params) /\ param.name \in DOMAIN params.d
            THEN params.d[param.name]
            ELSE << >>
    IN  << <<param.name, " ", ":", " ">> \o typ >>
        \o (IF desc # << >> THEN << Indent \o desc >> ELSE << >>)
        \o (IF default # None
            THEN << Indent \o <<"Default:", " ">> \o repr(default) >>
            ELSE << >>)
        \o << << >> >>

\* the body of the loop over sig.parameters for one documented parameter:
\* the lines it appends to param_docs
param_lines(param, params) ==
    LET annotation ==
            IF param.annotation.kind = "empty" THEN AnyType
            ELSE type_hint(param.annotation)
        isAnn == annotation.kind = "Annotation"
        typ == IF isAnn THEN name_attr(annotation.type) ELSE type_name(annotation)
        default0 == IF param.default # Empty THEN param.default ELSE None
        default ==
            IF isAnn /\ annotation.default # None THEN annotation.default
            ELSE default0
        desc0 == IF isAnn THEN annotation.description ELSE << >>
        desc ==
            IF Truthy(params) /\ param.name \in DOMAIN params.d
            THEN params.d[param.name]
            ELSE desc0
    IN  << <<param.name, " ", ":", " ">> \o typ >>
        \o (IF desc # << >> THEN << Indent \o desc >> ELSE << >>)
        \o (IF default # None
            THEN << Indent \o <<"Default:", " ">> \o repr(default) >>
            ELSE << >>)
        \o << << >> >>

RECURSIVE param_docs(_, _)
\* param_docs after the loop over sig.parameters; a parameter named "self"
\* is skipped
param_docs(parameters, params) ==
    IF parameters = << >> THEN << >>
    ELSE IF Head(parameters).name = "self" THEN param_docs(Tail(parameters), params)
    ELSE param_lines(Head(parameters), params) \o param_docs(Tail(parameters), params)

params_doc_str(func, params) == strip(join(<<"\n">>, param_docs(func.params, params)))

params_section(func, params) ==
    <<"Parameters:", "\n", "-----------", "\n">>
    \o (IF params_doc_str(func, params) # << >>
        THEN params_doc_str(func, params)
        ELSE <<"None">>)

\* ret_annotation after the Signature.empty fallback
ret_annotation(func) ==
    IF func.ret.kind = "empty" THEN Class("NoneType") ELSE type_hint(func.ret)

ret_type(func) ==
    IF ret_annotation(func).kind = "Annotation"
    THEN name_attr(ret_annotation(func).type)
    ELSE type_name(ret_annotation(func))

ret_desc(func, returns) ==
    IF Truthy(returns)
    THEN IF returns.t = "list" THEN join(<<";", " ">>, returns.l) ELSE returns.s
    ELSE IF ret_annotation(func).kind = "Annotation"
         THEN ret_annotation(func).description
         ELSE << >>

returns_section(func, returns) ==
    <<"Returns:", "\n", "--------", "\n">>
    \o (IF ret_type(func) # << >> /\ ret_type(func) # <<"None">>
        THEN ret_type(func)
             \o (IF ret_desc(func, returns) # << >>
                 THEN <<"\n">> \o Indent \o ret_desc(func, returns)
                 ELSE << >>)
        ELSE <<"None">>)

\* new_doc of _apply_to_func
func_new_doc(func, params, returns) ==
    strip(join(<<"\n">>, << doc_or_empty(func.doc), << >>,
                            params_section(func, params), << >>,
                            returns_section(func, returns) >>))

\* the wrapper built by @wraps(func): the signature is found through
\* __wrapped__, __doc__ is then overwritten with new_doc
wrapper(func, id, new_doc) ==
    [func EXCEPT !.doc = StrV(new_doc), !.wrapped = id]

\* _apply_to_func writing new_doc to func.__doc__ and returning func itself
_apply_to_func_in_place(h, func, params, returns) ==
    [heap |-> [h EXCEPT ![func.id].doc =
                   StrV(func_new_doc(h[func.id], params, returns))],
     ret |-> func]

\* _apply_to_func(func, params=, returns=) on the heap h: the heap after the
\* call and the value returned
_apply_to_func(h, func, params, returns) ==
    [heap |-> Append(h, wrapper(h[func.id], func.id,
                                func_new_doc(h[func.id], params, returns))),
     ret |-> Ref(Len(h) + 1)]

----------------------------------------------------------------------------
(* _apply_to_class, apply *)

\* the keyword arguments of apply when none is given
NoKw == [class_vars |-> None, params |-> None, returns |-> None]

\* the body of the loop over cls.__annotations__ for one attribute: the
\* lines it appends to attr_docs
attr_lines(cls, attr, attr_type, class_vars) ==
    LET isAnn == attr_type.kind = "Annotation"
        typ == IF isAnn THEN name_attr(attr_type.type) ELSE type_name(attr_type)
        default0 == dict_get(cls.dict, attr)
        default ==
            IF isAnn /\ attr_type.default # None THEN attr_type.default
            ELSE default0
        desc0 == IF isAnn THEN attr_type.description ELSE << >>
        desc ==
            IF Truthy(class_vars) /\ attr \in DOMAIN class_vars.d
            THEN class_vars.d[attr]
            ELSE desc0
    IN  << <<attr, " ", ":", " ">> \o typ >>
        \o (IF desc # << >> THEN << Indent \o desc >> ELSE << >>)
        \o (IF in_dict(cls.dict, attr)
            THEN << Indent \o <<"Default:", " ">> \o repr(default) >>
            ELSE << >>)
        \o << << >> >>

RECURSIVE attr_docs(_, _, _)
\* attr_docs after the loop over the annotations from index i on
attr_docs(cls, i, class_vars) ==
    IF i > Len(cls.annotations) THEN << >>
    ELSE attr_lines(cls, cls.annotations[i].name, cls.annotations[i].value,
                    class_vars)
         \o attr_docs(cls, i + 1, class_vars)

attr_doc_str(cls, class_vars) == strip(join(<<"\n">>, attr_docs(cls, 1, class_vars)))

\* the text assigned to cls.__doc__
class_new_doc(cls, class_vars) ==
    strip(join(<<"\n">>, << doc_or_empty(cls.doc), << >>, <<"Attributes:">>,
                            <<"-----------">>, << >>,
                            attr_doc_str(cls, class_vars) >>))

RECURSIVE apply(_, _, _)
RECURSIVE decorate_members(_, _, _)
\* the loop over cls.__dict__.items() from entry i on: every callable member
\* whose name does not start with "__" is replaced by apply(member)
decorate_members(h, cls, i) ==
    IF i > Len(h[cls.id].dict) THEN h
    ELSE LET e == h[cls.id].dict[i]
         IN  IF callable(h, e.value) /\ ~startswith_dunder(e.name)
             THEN LET r == apply(h, e.value, NoKw)
                  IN  decorate_members(
                          [r.heap EXCEPT ![cls.id].dict[i].value = r.ret],
                          cls, i + 1)
             ELSE decorate_members(h, cls, i + 1)

\* _apply_to_class(cls, class_vars=) on the heap h
_apply_to_class(h, cls, class_vars) ==
    [heap |-> decorate_members(
                  [h EXCEPT ![cls.id].doc =
                       StrV(class_new_doc(h[cls.id], class_vars))],
                  cls, 1),
     ret |-> cls]

\* decorator whose last branch returns nothing
decorator_no_return(h, obj, kw) ==
    IF isclass(h, obj) THEN _apply_to_class(h, obj, kw.class_vars)
    ELSE IF callable(h, obj) THEN _apply_to_func(h, obj, kw.params, kw.returns)
    ELSE [heap |-> h, ret |-> None]

\* the inner function `decorator` of apply, closed over the keyword arguments
decorator(h, obj, kw) ==
    IF isclass(h, obj) THEN _apply_to_class(h, obj, kw.class_vars)
    ELSE IF callable(h, obj) THEN _apply_to_func(h, obj, kw.params, kw.returns)
    ELSE [heap |-> h, ret |-> obj]

\* apply(_obj, class_vars=, params=, returns=): with _obj None the closure
\* `decorator` is returned
apply(h, _obj, kw) ==
    IF _obj = None THEN [heap |-> h, ret |-> [t |-> "decorator", kw |-> kw]]
    ELSE decorator(h, _obj, kw)

----------------------------------------------------------------------------
(* The programs decorated: inputs of the model *)

\* __doc__ of an undecorated function or class: missing, one line, or the
\* usual triple-quoted block whose last line is the closing indentation
Docs ==
    { None,
      StrV(<<"Doc.">>),
      StrV(<<"\n", " ", " ", " ", " ", "Doc.", "\n", " ", " ", " ", " ">>) }

int == Class("int")

list_int == GenericAlias(Class("list"), <<int>>)

dict_str_list_int == GenericAlias(Class("dict"), <<Class("str"), list_int>>)

ParamPool ==
    { Param("x", int, Empty),
      Param("x", int, IntV(0)),
      Param("x", Annotation(int, <<"first", " ", "term">>, IntV(2)), IntV(2)),
      Param("y", Annotation(int, <<"second", " ", "term">>, None), Empty),
      Param("y", Annotation(int, <<"second", " ", "term">>, IntV(3)), Empty),
      Param("n", EmptyAnn, None),
      Param("values", list_int, Empty),
      Param("m", dict_str_list_int, Empty),
      Param("u", UnionType(<<int, Class("str")>>), Empty),
      Param("self", EmptyAnn, Empty),
      Param("cls", EmptyAnn, Empty) }

Distinct(seq) == \A i, j \in 1..Len(seq) : seq[i].name = seq[j].name => i = j

Signatures ==
    { sig \in UNION { [1..n -> ParamPool] : n \in 0..MaxParams } : Distinct(sig) }

ReturnAnnotations ==
    { EmptyAnn, NoneAnn, int, Annotation(int, <<"sum">>, None) }

FuncDefs ==
    { Function(doc, sig, ret) :
        doc \in Docs, sig \in Signatures, ret \in ReturnAnnotations }

ParamOverrides ==
    { None,
      DictV([n \in {"x", "values"} |-> <<"The", " ", "x", " ", "value">>]),
      DictV([n \in {"x", "y"} |-> << >>]) }

ReturnOverrides ==
    { None, StrV(<<"x", " ", "squared">>), ListV(<< <<"a">>, <<"b">> >>) }

AttrPool ==
    { Entry("a", int),
      Entry("b", Annotation(int, <<"bee">>, IntV(5))),
      Entry("c", Annotation(int, <<"cee">>, None)),
      Entry("d", list_int) }

AttrLists ==
    { l \in UNION { [1..n -> AttrPool] : n \in 0..MaxParams } : Distinct(l) }

ClassVarOverrides ==
    { None,
      DictV([n \in {"a", "b"} |-> <<"Alpha">>]),
      DictV([n \in {"b", "c"} |-> << >>]) }

\* def add(self, value: int) -> int, with a docstring
add == Function(StrV(<<"Arbitrary", " ", "text.">>),
                <<Param("self", EmptyAnn, Empty), Param("value", int, Empty)>>, int)

\* def __init__(self) -> None
init == Function(None, <<Param("self", EmptyAnn, Empty)>>, NoneAnn)

\* def square(x: int, y: int = 0) -> int
square(doc) == Function(doc, <<Param("x", int, Empty), Param("y", int, IntV(0))>>, int)

\* heap <<add, __init__, class>>: a class with annotated attributes, some of
\* them bound, __init__ and the method add
ClassWorld(doc, annotations, values) ==
    << add, init,
       ClassObj(doc, annotations,
                values \o <<Entry("__init__", Ref(2)), Entry("add", Ref(1))>>) >>

ValueLists ==
    { << >>, <<Entry("a", IntV(1))>>, <<Entry("b", IntV(7)), Entry("d", None)>>,
      <<Entry("a", IntV(0)), Entry("c", IntV(2))>> }

----------------------------------------------------------------------------
(* State machine *)

\* the call before any call
NoCall == [op |-> "init", obj |-> None, kw |-> NoKw, ret |-> None]

\* the objects a caller can pass: every object of the heap, and plain values
Objects(h) == { Ref(i) : i \in 1..Len(h) } \cup { None, IntV(3), StrV(<<"s">>) }

Kwargs ==
    { NoKw,
      [class_vars |-> DictV([n \in {"a"} |-> <<"Alpha">>]),
       params |-> DictV([n \in {"x"} |-> <<"The", " ", "x", " ", "value">>]),
       returns |-> StrV(<<"x", " ", "squared">>)] }

\* a module defining square and a class with attributes a, b, __init__ and
\* add, both without docstring or both with a triple-quoted one
Init ==
    /\ heap \in { ClassWorld(doc,
                             <<Entry("a", int),
                               Entry("b", Annotation(int, <<"bee">>, IntV(5)))>>,
                             <<Entry("a", IntV(1))>>)
                  \o <<square(doc)>> : doc \in Docs \ {StrV(<<"Doc.">>)} }
    /\ call = NoCall
    /\ ncalls = 0

\* apply(_obj, **kw)
Apply(_obj, kw) ==
    /\ ncalls < MaxCalls
    /\ LET r == apply(heap, _obj, kw)
       IN  /\ heap' = r.heap
           /\ call' = [op |-> "apply", obj |-> _obj, kw |-> kw, ret |-> r.ret]
    /\ ncalls' = ncalls + 1

\* apply(**kw)(obj): the closure returned by the last call is called on obj
Decorate(obj) ==
    /\ ncalls < MaxCalls
    /\ call.ret.t = "decorator"
    /\ LET r == decorator(heap, obj, call.ret.kw)
       IN  /\ heap' = r.heap
           /\ call' = [op |-> "decorator", obj |-> obj, kw |-> call.ret.kw,
                       ret |-> r.ret]
    /\ ncalls' = ncalls + 1

\* `@doxs.apply` on a method in a class body: the name is bound to the result
DecorateMethod(c, i) ==
    /\ ncalls < MaxCalls
    /\ heap[c].kind = "class"
    /\ i \in 1..Len(heap[c].dict)
    /\ callable(heap, heap[c].dict[i].value)
    /\ LET r == apply(heap, heap[c].dict[i].value, NoKw)
       IN  /\ heap' = [r.heap EXCEPT ![c].dict[i].value = r.ret]
           /\ call' = [op |-> "method", obj |-> heap[c].dict[i].value,
                       kw |-> NoKw, ret |-> r.ret]
    /\ ncalls' = ncalls + 1

ApplyAny == \E _obj \in Objects(heap), kw \in Kwargs : Apply(_obj, kw)

DecorateAny == \E obj \in Objects(heap) : Decorate(obj)

DecorateAnyMethod == \E c \in 1..Len(heap), i \in 1..3 : DecorateMethod(c, i)

Next == ApplyAny \/ DecorateAny \/ DecorateAnyMethod

Spec == Init /\ [][Next]_vars

\* one definition, decorated once: a function drawn from FuncDefs, or a class
\* drawn from the attribute lists
RenderInit ==
    /\ heap \in { <<f>> : f \in FuncDefs }
                \cup { ClassWorld(doc, l, v) :
                         doc \in Docs, l \in AttrLists, v \in ValueLists }
    /\ call = NoCall
    /\ ncalls = 0

\* the decorated definition: the last object of the initial heap
Target == Ref(Len(heap))

RenderFunction ==
    /\ call.op = "init"
    /\ ~isclass(heap, Target)
    /\ \E p \in ParamOverrides, r \in ReturnOverrides :
          Apply(Target, [class_vars |-> None, params |-> p, returns |-> r])

RenderClass ==
    /\ call.op = "init"
    /\ isclass(heap, Target)
    /\ \E cv \in ClassVarOverrides :
          Apply(Target, [class_vars |-> cv, params |-> None, returns |-> None])

RenderNext == RenderFunction \/ RenderClass

RenderSpec == RenderInit /\ [][RenderNext]_vars

----------------------------------------------------------------------------
(* Reading a rendered docstring back *)

RECURSIVE Lines(_)
\* the lines of a text
Lines(s) ==
    IF \A i \in 1..Len(s) : s[i] # "\n" THEN <<s>>
    ELSE LET k == CHOOSE i \in 1..Len(s) :
                    s[i] = "\n" /\ \A j \in 1..(i - 1) : s[j] # "\n"
         IN <<SubSeq(s, 1, k - 1)>> \o Lines(SubSeq(s, k + 1, Len(s)))

StartsWith(line, prefix) ==
    Len(line) >= Len(prefix) /\ SubSeq(line, 1, Len(prefix)) = prefix

Count(token, s) == Cardinality({ i \in 1..Len(s) : s[i] = token })

\* the text of the docstring of a heap object
DocText(o) == doc_or_empty(o.doc)

\* the `name : type` line of a slot
IsSlotLine(line, name) == StartsWith(line, <<name, " ", ":", " ">>)

HasSlot(lines, name) == \E i \in 1..Len(lines) : IsSlotLine(lines[i], name)

SlotIndex(lines, name) == CHOOSE i \in 1..Len(lines) : IsSlotLine(lines[i], name)

IsIndented(line) == StartsWith(line, Indent) /\ Len(line) > Len(Indent)

IsDefaultLine(line) == StartsWith(line, Indent \o <<"Default:">>)

\* the indented lines right under the slot line of `name`
SlotBlock(lines, name) ==
    { j \in (SlotIndex(lines, name) + 1)..Len(lines) :
        \A k \in (SlotIndex(lines, name) + 1)..j : IsIndented(lines[k]) }

\* the description rendered under the slot line, << >> when there is none
DescriptionOf(lines, name) ==
    LET js == { j \in SlotBlock(lines, name) : ~IsDefaultLine(lines[j]) }
    IN  IF js = {} THEN << >>
        ELSE LET j == CHOOSE j \in js : \A k \in js : j <= k
             IN SubSeq(lines[j], Len(Indent) + 1, Len(lines[j]))

\* the `Default:` lines rendered under the slot line
DefaultLinesOf(lines, name) ==
    { lines[j] : j \in { k \in SlotBlock(lines, name) : IsDefaultLine(lines[k]) } }

\* the call just made decorated a function / a class
DecoratedFunction ==
    /\ call.op \in {"apply", "decorator"}
    /\ call.obj.t = "ref"
    /\ heap[call.obj.id].kind = "function"

DecoratedClass ==
    /\ call.op \in {"apply", "decorator"}
    /\ call.obj.t = "ref"
    /\ heap[call.obj.id].kind = "class"

\* the text the call just made produced
Rendered == DocText(heap[call.ret.id])

----------------------------------------------------------------------------
(* Claims about one rendering (RenderSpec) *)

\* the description the override table, else the Annotation wrapper, gives a slot
ExpectedDescription(table, name, annotation) ==
    IF table # None /\ name \in DOMAIN table.d THEN table.d[name]
    ELSE IF annotation.kind = "Annotation" THEN annotation.description
    ELSE << >>

RECURSIVE TypeText(_)
\* Origin[Arg1, Arg2, ...], each argument rendered by the same rule
TypeText(t) ==
    IF t.kind = "generic"
    THEN <<t.origin.name, "[">>
         \o join(<<",", " ">>, [i \in 1..Len(t.args) |-> TypeText(t.args[i])])
         \o <<"]">>
    ELSE <<t.name>>

\* C4: a parameter annotated with a class or a parameterized generic renders
\* the line `name : Origin[Arg, ...]` (`values : list[int]`), a bare class its
\* own name
C4_GenericRendering ==
    DecoratedFunction =>
        \A i \in 1..Len(heap[call.obj.id].params) :
            LET p == heap[call.obj.id].params[i]
            IN  p.annotation.kind \in {"class", "generic"} =>
                    \E j \in 1..Len(Lines(Rendered)) :
                        Lines(Rendered)[j]
                          = <<p.name, " ", ":", " ">> \o TypeText(p.annotation)

\* the text after the `Returns:` header and its underline
ReturnsBody(doc) ==
    LET k == CHOOSE i \in 1..Len(doc) : doc[i] = "Returns:"
    IN  SubSeq(doc, k + 4, Len(doc))

\* C5: with no return annotation, or the return annotation None, the body of
\* the Returns: block is the single line `None`, whatever description is given
C5_ReturnsSuppressed ==
    (DecoratedFunction /\ heap[call.obj.id].ret.kind \in {"empty", "none"}) =>
        ReturnsBody(Rendered) = <<"None">>

\* C6: a documented parameter renders a `Default: <repr>` line exactly when it
\* has a default, a default equal to None included
C6_DefaultLine ==
    DecoratedFunction =>
        \A i \in 1..Len(heap[call.obj.id].params) :
            LET p == heap[call.obj.id].params[i]
                lines == Lines(Rendered)
            IN  HasSlot(lines, p.name) =>
                    DefaultLinesOf(lines, p.name)
                      = IF p.default = Empty THEN {}
                        ELSE { Indent \o <<"Default:", " ">> \o repr(p.default) }

\* C8: the result is the right-trimmed existing documentation, one blank line,
\* the generated block, with no blank line at either end; with no existing
\* documentation it starts with the generated header
C8_MergeLayout ==
    DecoratedFunction =>
        LET old == DocText(heap[call.obj.id])
            k == CHOOSE i \in 1..Len(Rendered) : Rendered[i] = "Parameters:"
        IN  /\ Rendered = strip(Rendered)
            /\ SubSeq(Rendered, 1, k - 1)
                 = IF strip(old) = << >> THEN << >>
                   ELSE strip(old) \o <<"\n", "\n">>

\* a `name : type` line
IsNameLine(line) ==
    /\ Len(line) >= 4
    /\ ~IsSpace(line[1])
    /\ <<line[2], line[3], line[4]>> = <<" ", ":", " ">>

\* the names of the `name : type` lines, in order
ListedNames(lines) ==
    LET named == SelectSeq(lines, IsNameLine)
    IN  [i \in 1..Len(named) |-> named[i][1]]

\* the parameters without the implicit first receiver parameter
WithoutReceiver(parameters) ==
    IF parameters # << >> /\ parameters[1].name \in {"self", "cls"}
    THEN Tail(parameters)
    ELSE parameters

\* C9: the Parameters: block lists the parameters in declaration order,
\* without the first parameter when it is the receiver (self or cls) and with
\* every other one; with none left its body is `None`
C9_ParameterEnumeration ==
    DecoratedFunction =>
        LET expected == WithoutReceiver(heap[call.obj.id].params)
            k == CHOOSE i \in 1..Len(Rendered) : Rendered[i] = "Parameters:"
            r == CHOOSE i \in 1..Len(Rendered) : Rendered[i] = "Returns:"
        IN  /\ ListedNames(Lines(Rendered))
                 = [i \in 1..Len(expected) |-> expected[i].name]
            /\ expected = << >> => SubSeq(Rendered, k + 4, r - 3) = <<"None">>

----------------------------------------------------------------------------
(* Claims about sequences of calls (Spec) *)

\* C1: applying the decoration to an already decorated function returns it
\* unchanged, with the documentation of one application, in which the header
\* `Parameters:` occurs once
C1_Idempotent ==
    (DecoratedFunction /\ heap[call.obj.id].wrapped # 0) =>
        /\ call.ret = call.obj
        /\ Rendered = DocText(heap[call.obj.id])
        /\ Count("Parameters:", Rendered) = 1

\* C2: once a class is decorated, whatever was decorated before, its
\* documentation holds one `Attributes:` block and the documentation of every
\* non-dunder callable member one `Parameters:` and one `Returns:` block
C2_ClassBlocksOnce ==
    DecoratedClass =>
        /\ Count("Attributes:", DocText(heap[call.obj.id])) = 1
        /\ \A i \in 1..Len(heap[call.obj.id].dict) :
              LET e == heap[call.obj.id].dict[i]
              IN  (callable(heap, e.value) /\ ~startswith_dunder(e.name)) =>
                      /\ Count("Parameters:", DocText(heap[e.value.id])) = 1
                      /\ Count("Returns:", DocText(heap[e.value.id])) = 1

\* C7 as stated: apply(obj) on an object that is neither a class nor callable,
\* None included, returns that object
C7_NonDecoratable ==
    (call.op = "apply" /\ call.obj.t # "ref") => call.ret = call.obj

\* C7 amended: apply(obj) returns obj when obj is neither a class nor callable
\* and is not None; apply(None) returns the decorator closure over the keyword
\* arguments; that closure called on an object that is neither a class nor
\* callable (None included) returns it
C7_NonDecoratableNotNone ==
    /\ (call.op = "apply" /\ call.obj.t # "ref" /\ call.obj # None) =>
           call.ret = call.obj
    /\ (call.op = "apply" /\ call.obj = None) =>
           call.ret = [t |-> "decorator", kw |-> call.kw]
    /\ (call.op = "decorator" /\ call.obj.t # "ref") => call.ret = call.obj

\* apply(3) was called and returned 3
C7_Witness ==
    /\ call.op = "apply"
    /\ call.obj = IntV(3)
    /\ call.ret = IntV(3)

\* one step leaves every function object as it was; a call on a function
\* returns a new object carrying the generated text; a call on a class returns
\* the class, with a new docstring and each non-dunder callable member
\* rebound to a new wrapper of the old one
FrameStep ==
    /\ \A i \in 1..Len(heap) : heap[i].kind = "function" => heap'[i] = heap[i]
    /\ (call'.op \in {"apply", "decorator"} /\ call'.obj.t = "ref") =>
          LET c == call'.obj.id
          IN  IF heap[c].kind = "function"
              THEN /\ call'.ret.t = "ref"
                   /\ call'.ret.id > Len(heap)
                   /\ heap'[call'.ret.id].wrapped = c
                   /\ Count("Parameters:", DocText(heap'[call'.ret.id]))
                        = Count("Parameters:", DocText(heap[c])) + 1
              ELSE /\ call'.ret = call'.obj
                   /\ heap'[c].doc # heap[c].doc
                   /\ heap'[c].annotations = heap[c].annotations
                   /\ \A j \in 1..Len(heap[c].dict) :
                         LET e == heap[c].dict[j]
                             n == heap'[c].dict[j]
                         IN  IF callable(heap, e.value) /\ ~startswith_dunder(e.name)
                             THEN /\ n.name = e.name
                                  /\ n.value.t = "ref"
                                  /\ n.value.id > Len(heap)
                                  /\ heap'[n.value.id].wrapped = e.value.id
                             ELSE n = e

====
